---- MODULE Spec2Model ----
(***************************************************************************)
(* chanbg (src/chanbg.py): periodically picks a random image post from an  *)
(* imageboard, downloads it into a flat folder keyed by content hash and   *)
(* calls an external command to set it as the desktop background.          *)
(*                                                                         *)
(* The program is single threaded.  Its control position is `pc`; every    *)
(* blocking call (HTTP request, file system call, sleep, subprocess) is    *)
(* one step.  The network, the file system and the keyboard are the        *)
(* environment: their answers are chosen nondeterministically.             *)
(***************************************************************************)
EXTENDS Integers, Sequences, FiniteSets, TLC

VARIABLES
    options,      \* the options dict built once by create_options
    pc,           \* control position of the single thread
    b,            \* _get_random_post: chosen board ("" outside the call)
    t,            \* _get_random_post: chosen thread number (0 outside)
    json,         \* posts of the thread fetched by the latest selector call
    post_info,    \* _get_random_image: value returned by _get_random_post
    path,         \* _get_random_image: destination path
    result,       \* update_background: value returned by _get_random_image
    ub_ret,       \* value returned by the latest update_background
    status,       \* exit status returned by set_background in this cycle
    folder,       \* file system: the image folder exists
    files,        \* file system: path |-> "absent", "partial" (bytes of the
                  \* body missing) or "complete" (the whole body on disk)
    reqs,         \* HTTP requests issued in this cycle (kinds)
    fetch_failed, \* which JSON fetch returned absent in this cycle
    setter_calls, \* invocations of set_background in this cycle
    setter_path,  \* path handed to set_background in this cycle
    cache_hit,    \* _get_random_image returned an already present file
    interrupted_at, \* control position at which the interrupt arrived
    slept,        \* seconds of SLEEP_FAILURE sleep since the last index request
    timeout_slept, \* a timeout sleep has ended since the last set_background
    mkdir_failed  \* os.makedirs raised in this cycle

vars == <<options, pc, b, t, json, post_info, path, result, ub_ret, status,
          folder, files, reqs, fetch_failed, setter_calls, setter_path,
          cache_hit, interrupted_at, slept, timeout_slept, mkdir_failed>>

---------------------------------------------------------------------------
(* Bounds of the model *)

MaxDim == 2
MaxPosts == 2
NumHashes == 2
MaxThreadNo == 2
MaxPages == 2
MaxPerPage == 1
MaxStatus == 1
NumChars == 3

---------------------------------------------------------------------------
(* Program constants *)

ALLOW_STICKIES == FALSE
DISALLOWED_EXTENSIONS == {".webm"}
SLEEP_FAILURE == 1
DEF_BOARDS == <<"w", "wg">>
DEF_IMAGE_FOLDER == "img"
\* md5[:22]
PrefixLen == 22

---------------------------------------------------------------------------
(* Python values *)

None == [kind |-> "None"]
False == [kind |-> "False"]
Str(s) == [kind |-> "str", val |-> s]
List(s) == [kind |-> "list", val |-> s]
Posts(s) == [kind |-> "dict", posts |-> s]
Dict(board, thread, post) ==
    [kind |-> "dict", board |-> board, thread |-> thread, post |-> post]
\* bool(v) for the values the program tests with `not`
Truthy(v) ==
    CASE v.kind = "dict" -> TRUE
      [] v.kind = "str" -> v.val # [folder |-> "", filename |-> <<>>, extension |-> ""]
      [] v.kind = "list" -> v.val # <<>>
      [] OTHER -> FALSE
\* no value assigned (a name that is not bound yet)
Unset == [kind |-> "unset"]

Min2(x, y) == IF x <= y THEN x ELSE y

SeqsUpTo(S, n) == UNION {[1..k -> S] : k \in 0..n}
Range(s) == {s[i] : i \in 1..Len(s)}

---------------------------------------------------------------------------
(* Inputs: what the API can answer *)

Exts == {".jpg", ".webm"}
HashAlphabet == <<"+", "/", "A", "B">>
\* a base64 md5: 22 significant characters and the "==" padding
Md5With(c) ==
    [i \in 1..(PrefixLen + 2) |->
        IF i = 1 THEN c ELSE IF i > PrefixLen THEN "=" ELSE "A"]
Hashes == {Md5With(HashAlphabet[i]) : i \in 1..NumHashes}
\* base64 md5 values that vary in the first and the last character of the
\* 22-character prefix and in the first character after it
Md5Over(c1, c22, c23) ==
    [i \in 1..(PrefixLen + 2) |->
        IF i = 1 THEN c1
        ELSE IF i = PrefixLen THEN c22
        ELSE IF i = PrefixLen + 1 THEN c23
        ELSE IF i > PrefixLen THEN "=" ELSE "A"]
HashChars == {HashAlphabet[i] : i \in 1..NumChars}
HashSamples ==
    {Md5Over(c1, c22, c23) : c1 \in HashChars, c22 \in HashChars, c23 \in {"=", "A"}}

ImagePost(w, h, ext, md5) ==
    [no |-> 1, tim |-> 1, filename |-> "f", ext |-> ext, w |-> w, h |-> h,
     md5 |-> md5]
TextPost == [no |-> 1, com |-> "c"]
Sticky(x) == x @@ ("sticky" :> 1)

PostDims == 0..(MaxDim + 1)
\* posts of the cycle-level specification: fixed size, any hash and extension
LeanPosts ==
    {ImagePost(1, 1, e, m) : e \in Exts, m \in Hashes} \cup {TextPost}
\* posts of the selector-level specification: every size, sticky or not
RichImagePosts ==
    {ImagePost(w, h, e, Md5With("A")) : w \in PostDims, h \in PostDims, e \in Exts}
RichPosts ==
    RichImagePosts \cup {Sticky(x) : x \in RichImagePosts}
        \cup {TextPost, Sticky(TextPost)}
LeanThreads == SeqsUpTo(LeanPosts, MaxPosts)
\* the other posts of a thread of the selector-level specification
FillerPosts == {TextPost, ImagePost(1, 1, ".jpg", Md5With("A"))}
InsertAt(s, i, x) == SubSeq(s, 1, i - 1) \o <<x>> \o SubSeq(s, i, Len(s))
\* threads of up to MaxPosts posts: one post of any shape at any position
RichThreads ==
    {<<>>} \cup
    UNION {{InsertAt(s, i, x) : i \in 1..(Len(s) + 1), x \in RichPosts} :
              s \in SeqsUpTo(FillerPosts, MaxPosts - 1)}

\* threads of the filename-level specification: posts of size 1x1 whose
\* hashes differ
HashPosts == {ImagePost(1, 1, ".jpg", m) : m \in HashSamples}
HashThreads == SeqsUpTo(HashPosts, MaxPosts) \ {<<>>}

\* threads.json: a list of pages, each with a list of thread summaries
Pages ==
    {[threads |-> s] : s \in SeqsUpTo({[no |-> n] : n \in 1..MaxThreadNo}, MaxPerPage)}
IndexResponses == {None} \cup {List(s) : s \in SeqsUpTo(Pages, MaxPages)}
\* thread/<no>.json: an object with the list of posts
ThreadResponses(threads) == {None} \cup {Posts(s) : s \in threads}

Dims == 1..MaxDim
Statuses == 0..MaxStatus

---------------------------------------------------------------------------
(* Pure helpers of the program *)

\* str.replace(old, new) on a sequence of characters
Replace(s, old, new) == [i \in 1..Len(s) |-> IF s[i] = old THEN new ELSE s[i]]

\* _md5_to_filename without .replace('/', '_')
_md5_to_filename_KeepsSlash(md5) ==
    Replace(SubSeq(md5, 1, Min2(PrefixLen, Len(md5))), "+", "-")

_md5_to_filename(md5) ==
    Replace(Replace(SubSeq(md5, 1, Min2(PrefixLen, Len(md5))), "+", "-"), "/", "_")

\* "{folder}/{filename}{extension}".format(...)
PathOf(image_folder, post) ==
    [folder |-> image_folder, filename |-> _md5_to_filename(post.md5),
     extension |-> post.ext]
EmptyPath == [folder |-> "", filename |-> <<>>, extension |-> ""]

\* every path the program can derive from a post of the API
AllPaths ==
    {PathOf(DEF_IMAGE_FOLDER, x) :
        x \in {y \in LeanPosts \cup RichPosts : "md5" \in DOMAIN y}}

\* os.path.isfile(path)
_check_file_exists(p) == p \in DOMAIN files /\ files[p] # "absent"

\* BoundsInvalid with all() in place of any()
BoundsInvalid_All(o) ==
    \A i \in 1..2 : o.min_dimension[i] > o.max_dimension[i]

\* any(min_dimension[i] > max_dimension[i] for i in range(2))
BoundsInvalid(o) ==
    \E i \in 1..2 : o.min_dimension[i] > o.max_dimension[i]

\* Suitable with the upper bounds exclusive
Suitable_Exclusive(x, min_dimension, max_dimension) ==
    /\ "filename" \in DOMAIN x
    /\ ("sticky" \notin DOMAIN x \/ ALLOW_STICKIES)
    /\ x.w >= min_dimension[1]
    /\ x.w < max_dimension[1]
    /\ x.h >= min_dimension[2]
    /\ x.h < max_dimension[2]
    /\ x.ext \notin DISALLOWED_EXTENSIONS

\* the condition of the list comprehension of _get_random_post
Suitable(x, min_dimension, max_dimension) ==
    /\ "filename" \in DOMAIN x
    /\ ("sticky" \notin DOMAIN x \/ ALLOW_STICKIES)
    /\ x.w >= min_dimension[1]
    /\ x.w <= max_dimension[1]
    /\ x.h >= min_dimension[2]
    /\ x.h <= max_dimension[2]
    /\ x.ext \notin DISALLOWED_EXTENSIONS

RECURSIVE Filter(_, _, _)
Filter(s, min_dimension, max_dimension) ==
    IF s = <<>> THEN <<>>
    ELSE (IF Suitable(Head(s), min_dimension, max_dimension)
          THEN <<Head(s)>> ELSE <<>>)
         \o Filter(Tail(s), min_dimension, max_dimension)

all_image_posts(js, o) == Filter(js.posts, o.min_dimension, o.max_dimension)

\* [x["no"] for y in json for x in y['threads']]
RECURSIVE all_threads(_)
all_threads(pages) ==
    IF pages = <<>> THEN <<>>
    ELSE [i \in 1..Len(Head(pages).threads) |-> Head(pages).threads[i].no]
         \o all_threads(Tail(pages))

create_options(min_dimension, max_dimension) ==
    [boards |-> DEF_BOARDS, image_folder |-> DEF_IMAGE_FOLDER,
     min_dimension |-> min_dimension, max_dimension |-> max_dimension]

Running == pc \notin {"exited", "crashed"}

---------------------------------------------------------------------------
(* Initial state: options built, nothing downloaded yet *)

Configs ==
    {create_options(<<a, c>>, <<d, e>>) : a \in Dims, c \in Dims, d \in Dims, e \in Dims}

\* the cycle-level specification: the maximum is the size of its posts, the
\* minimum varies, so that the bounds are valid or violated in either component
CycleConfigs == {o \in Configs : o.max_dimension = <<1, 1>>}

Start ==
    /\ pc = "main"
    /\ b = ""
    /\ t = 0
    /\ json = Unset
    /\ post_info = Unset
    /\ path = EmptyPath
    /\ result = Unset
    /\ ub_ret = Unset
    /\ status = -1
    /\ files = [p \in AllPaths |-> "absent"]
    /\ reqs = {}
    /\ fetch_failed = "no"
    /\ setter_calls = 0
    /\ setter_path = EmptyPath
    /\ cache_hit = FALSE
    /\ interrupted_at = ""
    /\ slept = 0
    /\ timeout_slept = TRUE
    /\ mkdir_failed = FALSE

Init ==
    /\ options \in CycleConfigs
    /\ folder \in BOOLEAN
    /\ Start

---------------------------------------------------------------------------
(* _get_random_post(options), lines 56-95 *)

\* return v from _get_random_post to line 142 of _get_random_image
ReturnPost(v) ==
    /\ post_info' = v
    /\ b' = ""
    /\ t' = 0
    /\ pc' = "image_loop"

\* lines 62-68: validate the bounds, choose a board
PostBounds ==
    /\ pc = "post_bounds"
    /\ json' = Unset
    /\ IF BoundsInvalid(options)
       THEN ReturnPost(False)
       ELSE /\ \E i \in 1..Len(options.boards) : b' = options.boards[i]
            /\ pc' = "thread_index"
            /\ UNCHANGED <<t, post_info>>
    /\ UNCHANGED <<options, path, result, ub_ret, status, folder, files, reqs,
                   fetch_failed, setter_calls, setter_path, cache_hit>>
    /\ UNCHANGED <<interrupted_at, slept, timeout_slept, mkdir_failed>>

\* lines 69-71 and _get_random_thread, lines 164-176
GetRandomThread ==
    /\ pc = "thread_index"
    /\ reqs' = reqs \cup {"index"}
    /\ \E resp \in IndexResponses :
         IF ~Truthy(resp)
         THEN /\ fetch_failed' = IF resp = None THEN "index" ELSE fetch_failed
              /\ ReturnPost(False)
         ELSE /\ UNCHANGED fetch_failed
              /\ IF all_threads(resp.val) = <<>>
                 THEN \* random.choice([]) raises IndexError, caught nowhere
                      /\ pc' = "crashed"
                      /\ UNCHANGED <<b, t, post_info>>
                 ELSE \E i \in 1..Len(all_threads(resp.val)) :
                        IF all_threads(resp.val)[i] = 0
                        THEN ReturnPost(False)
                        ELSE /\ t' = all_threads(resp.val)[i]
                             /\ pc' = "thread_json"
                             /\ UNCHANGED <<b, post_info>>
    /\ UNCHANGED <<options, json, path, result, ub_ret, status, folder, files,
                   setter_calls, setter_path, cache_hit>>
    /\ slept' = 0
    /\ UNCHANGED <<interrupted_at, timeout_slept, mkdir_failed>>

\* GetThreadPosts without line 90: None is returned with no sleep
GetThreadPosts_NoSleep(threads) ==
    /\ pc = "thread_json"
    /\ reqs' = reqs \cup {"thread"}
    /\ \E resp \in ThreadResponses(threads) :
         IF ~Truthy(resp)
         THEN /\ fetch_failed' = "thread"
              /\ json' = Unset
              /\ ReturnPost(False)
         ELSE /\ UNCHANGED fetch_failed
              /\ json' = resp
              /\ IF all_image_posts(resp, options) = <<>>
                 THEN ReturnPost(None)
                 ELSE \E i \in 1..Len(all_image_posts(resp, options)) :
                        ReturnPost(Dict(b, t, all_image_posts(resp, options)[i]))
    /\ UNCHANGED <<options, path, result, ub_ret, status, folder, files,
                   setter_calls, setter_path, cache_hit>>
    /\ UNCHANGED <<interrupted_at, slept, timeout_slept, mkdir_failed>>

\* lines 73-95: fetch the thread, filter its posts, choose one
GetThreadPosts(threads) ==
    /\ pc = "thread_json"
    /\ reqs' = reqs \cup {"thread"}
    /\ \E resp \in ThreadResponses(threads) :
         IF ~Truthy(resp)
         THEN /\ fetch_failed' = "thread"
              /\ json' = Unset
              /\ ReturnPost(False)
         ELSE /\ UNCHANGED fetch_failed
              /\ json' = resp
              /\ IF all_image_posts(resp, options) = <<>>
                 THEN /\ pc' = "sleep_failure"
                      /\ UNCHANGED <<b, t, post_info>>
                 ELSE \E i \in 1..Len(all_image_posts(resp, options)) :
                        ReturnPost(Dict(b, t, all_image_posts(resp, options)[i]))
    /\ UNCHANGED <<options, path, result, ub_ret, status, folder, files,
                   setter_calls, setter_path, cache_hit>>
    /\ UNCHANGED <<interrupted_at, slept, timeout_slept, mkdir_failed>>

\* SleepFailure with `return False` in place of `return None`
SleepFailure_ReturnsFalse ==
    /\ pc = "sleep_failure"
    /\ ReturnPost(False)
    /\ UNCHANGED <<options, json, path, result, ub_ret, status, folder, files,
                   reqs, fetch_failed, setter_calls, setter_path,
                   cache_hit>>
    /\ slept' = SLEEP_FAILURE
    /\ UNCHANGED <<interrupted_at, timeout_slept, mkdir_failed>>

\* lines 90-91: time.sleep(SLEEP_FAILURE); return None
SleepFailure ==
    /\ pc = "sleep_failure"
    /\ ReturnPost(None)
    /\ UNCHANGED <<options, json, path, result, ub_ret, status, folder, files,
                   reqs, fetch_failed, setter_calls, setter_path,
                   cache_hit>>
    /\ slept' = SLEEP_FAILURE
    /\ UNCHANGED <<interrupted_at, timeout_slept, mkdir_failed>>

---------------------------------------------------------------------------
(* _get_random_image(options), lines 132-162 *)

\* return v from _get_random_image to line 221 of update_background
ReturnImage(v) ==
    /\ result' = v
    /\ pc' = "ub_check"

\* ImageLoop with `while not post_info` in place of `while post_info == None`
ImageLoop_RetriesOnFailure ==
    /\ pc = "image_loop"
    /\ IF Truthy(post_info)
       THEN /\ path' = PathOf(options.image_folder, post_info.post)
            /\ pc' = "cache_check"
            /\ UNCHANGED result
       ELSE /\ pc' = "post_bounds"
            /\ UNCHANGED <<path, result>>
    /\ json' = Unset
    /\ UNCHANGED <<options, b, t, post_info, ub_ret, status, folder, files,
                   reqs, fetch_failed, setter_calls, setter_path,
                   cache_hit>>
    /\ UNCHANGED <<interrupted_at, slept, timeout_slept, mkdir_failed>>

\* ImageLoop with `while post_info` never true: no second selector call
ImageLoop_StopsOnNull ==
    /\ pc = "image_loop"
    /\ IF Truthy(post_info)
       THEN /\ path' = PathOf(options.image_folder, post_info.post)
            /\ pc' = "cache_check"
            /\ UNCHANGED result
       ELSE /\ ReturnImage(False)
            /\ UNCHANGED path
    /\ json' = Unset
    /\ UNCHANGED <<options, b, t, post_info, ub_ret, status, folder, files,
                   reqs, fetch_failed, setter_calls, setter_path,
                   cache_hit>>
    /\ UNCHANGED <<interrupted_at, slept, timeout_slept, mkdir_failed>>

\* lines 143-151: the value returned by _get_random_post is tested, then the
\* condition of the while loop, then the test after the loop
ImageLoop ==
    /\ pc = "image_loop"
    /\ IF Truthy(post_info)
       THEN \* lines 145-149, the loop ends, lines 152-155
            /\ path' = PathOf(options.image_folder, post_info.post)
            /\ pc' = "cache_check"
            /\ UNCHANGED result
       ELSE IF post_info = None
       THEN \* continue; post_info == None: the selector is called again
            /\ pc' = "post_bounds"
            /\ UNCHANGED <<path, result>>
       ELSE \* continue; False == None is false: the loop ends; return False
            /\ ReturnImage(False)
            /\ UNCHANGED path
    /\ json' = Unset
    /\ UNCHANGED <<options, b, t, post_info, ub_ret, status, folder, files,
                   reqs, fetch_failed, setter_calls, setter_path,
                   cache_hit>>
    /\ UNCHANGED <<interrupted_at, slept, timeout_slept, mkdir_failed>>

\* CacheCheck without the test of line 156: the image is always downloaded
CacheCheck_AlwaysDownloads ==
    /\ pc = "cache_check"
    /\ pc' = "create_folder"
    /\ UNCHANGED <<options, b, t, json, post_info, path, result, ub_ret,
                   status, folder, files, reqs, fetch_failed, setter_calls,
                   setter_path, cache_hit>>
    /\ UNCHANGED <<interrupted_at, slept, timeout_slept, mkdir_failed>>

\* lines 156-158
CacheCheck ==
    /\ pc = "cache_check"
    /\ IF _check_file_exists(path)
       THEN /\ cache_hit' = TRUE
            /\ ReturnImage(Str(path))
       ELSE /\ pc' = "create_folder"
            /\ UNCHANGED <<result, cache_hit>>
    /\ UNCHANGED <<options, b, t, json, post_info, path, ub_ret, status,
                   folder, files, reqs, fetch_failed, setter_calls,
                   setter_path>>
    /\ UNCHANGED <<interrupted_at, slept, timeout_slept, mkdir_failed>>

\* TryCreateImageFolder without the handler of lines 104-106: the error of
\* os.makedirs is raised to the main loop
TryCreateImageFolder_Raises ==
    /\ pc = "create_folder"
    /\ IF ~folder
       THEN folder' \in BOOLEAN
       ELSE UNCHANGED folder
    /\ pc' = IF ~folder /\ ~folder' THEN "crashed" ELSE "save_request"
    /\ UNCHANGED <<options, b, t, json, post_info, path, result, ub_ret,
                   status, files, reqs, fetch_failed, setter_calls,
                   setter_path, cache_hit>>
    /\ mkdir_failed' = (~folder /\ ~folder')
    /\ UNCHANGED <<interrupted_at, slept, timeout_slept>>

\* line 159 and _try_create_image_folder, lines 97-106
TryCreateImageFolder ==
    /\ pc = "create_folder"
    /\ IF ~folder
       THEN \* os.makedirs creates the folder, or raises and is swallowed
            folder' \in BOOLEAN
       ELSE UNCHANGED folder
    /\ pc' = "save_request"
    /\ UNCHANGED <<options, b, t, json, post_info, path, result, ub_ret,
                   status, files, reqs, fetch_failed, setter_calls,
                   setter_path, cache_hit>>
    /\ mkdir_failed' = (~folder /\ ~folder')
    /\ UNCHANGED <<interrupted_at, slept, timeout_slept>>

\* _save_image line 113: requests.get(url, stream=True)
SaveRequest ==
    /\ pc = "save_request"
    /\ reqs' = reqs \cup {"image"}
    /\ \/ /\ pc' = "save_open"
          /\ UNCHANGED result
       \/ ReturnImage(False)
    /\ UNCHANGED <<options, b, t, json, post_info, path, ub_ret, status,
                   folder, files, fetch_failed, setter_calls, setter_path, cache_hit>>
    /\ UNCHANGED <<interrupted_at, slept, timeout_slept, mkdir_failed>>

\* _save_image line 114: open(path, 'wb') creates or truncates the file;
\* the empty file is the whole of an empty body
SaveOpen ==
    /\ pc = "save_open"
    /\ IF folder
       THEN /\ \/ /\ files' = [files EXCEPT ![path] = "partial"]
                  /\ pc' = "save_stream"
               \/ /\ files' = [files EXCEPT ![path] = "complete"]
                  /\ pc' = "save_eof"
            /\ UNCHANGED result
       ELSE /\ ReturnImage(False)
            /\ UNCHANGED files
    /\ UNCHANGED <<options, b, t, json, post_info, path, ub_ret, status,
                   folder, reqs, fetch_failed, setter_calls, setter_path, cache_hit>>
    /\ UNCHANGED <<interrupted_at, slept, timeout_slept, mkdir_failed>>

\* _save_image lines 115-116 while bytes of the body are missing: the loop
\* waits for a chunk, which arrives and is written, or the stream raises
\* (lines 117-120). A file removed meanwhile stays removed.
SaveStream ==
    /\ pc = "save_stream"
    /\ \/ \* a chunk that is not the last one
          /\ pc' = "save_stream"
          /\ UNCHANGED <<files, result>>
       \/ \* the last chunk
          /\ files' = [files EXCEPT ![path] =
                            IF @ = "absent" THEN "absent" ELSE "complete"]
          /\ pc' = "save_eof"
          /\ UNCHANGED result
       \/ /\ ReturnImage(False)
          /\ UNCHANGED files
    /\ UNCHANGED <<options, b, t, json, post_info, path, ub_ret, status,
                   folder, reqs, fetch_failed, setter_calls, setter_path, cache_hit>>
    /\ UNCHANGED <<interrupted_at, slept, timeout_slept, mkdir_failed>>

\* _save_image lines 115-123 with every byte written: the loop waits for the
\* end of the stream, which comes (line 123 returns the path) or raises
SaveStreamEnd ==
    /\ pc = "save_eof"
    /\ \/ ReturnImage(Str(path))
       \/ ReturnImage(False)
    /\ UNCHANGED <<options, b, t, json, post_info, path, ub_ret, status,
                   folder, files, reqs, fetch_failed, setter_calls,
                   setter_path, cache_hit>>
    /\ UNCHANGED <<interrupted_at, slept, timeout_slept, mkdir_failed>>

---------------------------------------------------------------------------
(* update_background, set_background and the main loop *)

\* line 299: update_background is called; lines 221, 138-141
CallUpdateBackground ==
    /\ pc = "main"
    /\ post_info' = None
    /\ path' = EmptyPath
    /\ result' = Unset
    /\ ub_ret' = Unset
    /\ status' = -1
    /\ reqs' = {}
    /\ fetch_failed' = "no"
    /\ setter_calls' = 0
    /\ setter_path' = EmptyPath
    /\ cache_hit' = FALSE
    /\ pc' = "post_bounds"
    /\ UNCHANGED <<options, b, t, json, folder, files>>
    /\ slept' = 0
    /\ mkdir_failed' = FALSE
    /\ UNCHANGED <<interrupted_at, timeout_slept>>

\* UpdateBackgroundCheck without lines 224-228: the path is not rechecked
UpdateBackgroundCheck_NoRecheck ==
    /\ pc = "ub_check"
    /\ IF ~Truthy(result)
       THEN /\ ub_ret' = False
            /\ pc' = "timeout_sleep"
       ELSE /\ pc' = "set_background"
            /\ UNCHANGED ub_ret
    /\ UNCHANGED <<options, b, t, json, post_info, path, result, status,
                   folder, files, reqs, fetch_failed, setter_calls,
                   setter_path, cache_hit>>
    /\ UNCHANGED <<interrupted_at, slept, timeout_slept, mkdir_failed>>

\* lines 222-228
UpdateBackgroundCheck ==
    /\ pc = "ub_check"
    /\ IF ~Truthy(result)
       THEN /\ ub_ret' = False
            /\ pc' = "timeout_sleep"
       ELSE IF ~_check_file_exists(result.val)
       THEN /\ ub_ret' = False
            /\ pc' = "timeout_sleep"
       ELSE /\ pc' = "set_background"
            /\ UNCHANGED ub_ret
    /\ UNCHANGED <<options, b, t, json, post_info, path, result, status,
                   folder, files, reqs, fetch_failed, setter_calls,
                   setter_path, cache_hit>>
    /\ UNCHANGED <<interrupted_at, slept, timeout_slept, mkdir_failed>>

\* SetBackground followed by `continue`: the next cycle starts with no sleep
SetBackground_SkipsSleep ==
    /\ pc = "set_background"
    /\ \E s \in Statuses : status' = s
    /\ setter_calls' = setter_calls + 1
    /\ setter_path' = result.val
    /\ ub_ret' = None
    /\ pc' = "main"
    /\ UNCHANGED <<options, b, t, json, post_info, path, result, folder,
                   files, reqs, fetch_failed, cache_hit>>
    /\ timeout_slept' = FALSE
    /\ UNCHANGED <<interrupted_at, slept, mkdir_failed>>

\* SetBackground raising on a non-zero exit status
SetBackground_Escalates ==
    /\ pc = "set_background"
    /\ \E s \in Statuses :
         /\ status' = s
         /\ pc' = IF s = 0 THEN "timeout_sleep" ELSE "crashed"
    /\ setter_calls' = setter_calls + 1
    /\ setter_path' = result.val
    /\ ub_ret' = None
    /\ UNCHANGED <<options, b, t, json, post_info, path, result, folder,
                   files, reqs, fetch_failed, cache_hit>>
    /\ timeout_slept' = FALSE
    /\ UNCHANGED <<interrupted_at, slept, mkdir_failed>>

\* line 229 and set_background, lines 184-196; update_background then ends
\* without a return statement
SetBackground ==
    /\ pc = "set_background"
    /\ \E s \in Statuses : status' = s
    /\ setter_calls' = setter_calls + 1
    /\ setter_path' = result.val
    /\ ub_ret' = None
    /\ pc' = "timeout_sleep"
    /\ UNCHANGED <<options, b, t, json, post_info, path, result, folder,
                   files, reqs, fetch_failed, cache_hit>>
    /\ timeout_slept' = FALSE
    /\ UNCHANGED <<interrupted_at, slept, mkdir_failed>>

\* line 300: time.sleep(timeout)
TimeoutSleep ==
    /\ pc = "timeout_sleep"
    /\ pc' = "main"
    /\ UNCHANGED <<options, b, t, json, post_info, path, result, ub_ret,
                   status, folder, files, reqs, fetch_failed, setter_calls,
                   setter_path, cache_hit>>
    /\ timeout_slept' = TRUE
    /\ UNCHANGED <<interrupted_at, slept, mkdir_failed>>

\* KeyboardInterrupt with the handlers of _get_json and _save_image catching
\* it too (a bare `except:`): the call returns its failure value
KeyboardInterrupt_Swallowed ==
    /\ Running
    /\ interrupted_at' = pc
    /\ IF pc \in {"save_request", "save_open", "save_stream", "save_eof"}
       THEN /\ ReturnImage(False)
       ELSE /\ pc' = "exited"
            /\ UNCHANGED result
    /\ UNCHANGED <<options, b, t, json, post_info, path, ub_ret,
                   status, folder, files, reqs, fetch_failed, setter_calls,
                   setter_path, cache_hit>>
    /\ UNCHANGED <<slept, timeout_slept, mkdir_failed>>

\* lines 301-302: KeyboardInterrupt is no Exception, so no handler below
\* the main loop catches it
KeyboardInterrupt ==
    /\ Running
    /\ pc' = "exited"
    /\ UNCHANGED <<options, b, t, json, post_info, path, result, ub_ret,
                   status, folder, files, reqs, fetch_failed, setter_calls,
                   setter_path, cache_hit>>
    /\ interrupted_at' = pc
    /\ UNCHANGED <<slept, timeout_slept, mkdir_failed>>

---------------------------------------------------------------------------
(* Environment: another process removes a downloaded file *)

RemoveFile ==
    /\ Running
    /\ \E p \in AllPaths :
         /\ files[p] # "absent"
         /\ files' = [files EXCEPT ![p] = "absent"]
    /\ UNCHANGED <<options, pc, b, t, json, post_info, path, result, ub_ret,
                   status, folder, reqs, fetch_failed, setter_calls,
                   setter_path, cache_hit>>
    /\ UNCHANGED <<interrupted_at, slept, timeout_slept, mkdir_failed>>

---------------------------------------------------------------------------
(* The program *)

Next ==
    \/ CallUpdateBackground
    \/ PostBounds
    \/ GetRandomThread
    \/ GetThreadPosts(LeanThreads)
    \/ SleepFailure
    \/ ImageLoop
    \/ CacheCheck
    \/ TryCreateImageFolder
    \/ SaveRequest
    \/ SaveOpen
    \/ SaveStream
    \/ SaveStreamEnd
    \/ UpdateBackgroundCheck
    \/ SetBackground
    \/ TimeoutSleep
    \/ KeyboardInterrupt
    \/ RemoveFile

Spec == Init /\ [][Next]_vars

\* The statements of the program: every call returns and control goes on
ProgramStep ==
    \/ CallUpdateBackground
    \/ PostBounds
    \/ GetRandomThread
    \/ GetThreadPosts(LeanThreads)
    \/ SleepFailure
    \/ ImageLoop
    \/ CacheCheck
    \/ TryCreateImageFolder
    \/ SaveRequest
    \/ SaveOpen
    \/ SaveStream
    \/ SaveStreamEnd
    \/ UpdateBackgroundCheck
    \/ SetBackground
    \/ TimeoutSleep

\* lines 73-95 with an outcome other than the sleep before a null return:
\* random.choice comes upon a thread with a suitable post, or the fetch fails
SelectorNotNull == GetThreadPosts(LeanThreads) /\ pc' = "image_loop"

\* The program with every call returning and the random choices fair
FairSpec ==
    /\ Spec
    /\ WF_vars(ProgramStep)
    /\ SF_vars(SelectorNotNull)

---------------------------------------------------------------------------
(* The selector: the first cycle up to the end of the loop of               *)
(* _get_random_image, on threads whose posts take every size and flag.     *)

InitSelector ==
    /\ options \in Configs
    /\ folder = TRUE
    /\ Start

NextSelector ==
    \/ CallUpdateBackground
    \/ PostBounds
    \/ GetRandomThread
    \/ GetThreadPosts(RichThreads)
    \/ SleepFailure
    \/ ImageLoop

SpecSelector == InitSelector /\ [][NextSelector]_vars

---------------------------------------------------------------------------
(* The filename derivation alone: one acquisition on threads whose posts   *)
(* carry hashes over the base64 alphabet, up to the formatting of the path *)
(* in lines 146-149.                                                       *)

InitFilename ==
    /\ options = create_options(<<1, 1>>, <<1, 1>>)
    /\ folder = TRUE
    /\ Start

NextFilename ==
    \/ CallUpdateBackground
    \/ PostBounds
    \/ GetRandomThread
    \/ GetThreadPosts(HashThreads)
    \/ ImageLoop

SpecFilename == InitFilename /\ [][NextFilename]_vars

---------------------------------------------------------------------------
(* Properties.  They are stated on the options, the fetched thread and the  *)
(* file system directly, not through the operators of the program.         *)

min_w == options.min_dimension[1]
min_h == options.min_dimension[2]
max_w == options.max_dimension[1]
max_h == options.max_dimension[2]

\* a bound of the options has its minimum above its maximum
MinExceedsMax == min_w > max_w \/ min_h > max_h

\* the post carries an image, is no sticky, lies within the inclusive bounds
\* and has an allowed extension
Eligible(x) ==
    /\ "filename" \in DOMAIN x
    /\ "sticky" \notin DOMAIN x
    /\ min_w <= x.w /\ x.w <= max_w
    /\ min_h <= x.h /\ x.h <= max_h
    /\ x.ext # ".webm"

\* the Python value True
True == [kind |-> "True"]

\* the step leaves the control position, and not by an interrupt
Steps == pc' # pc /\ pc' # "exited"

\* C1: in a cycle where the thread-index fetch or the post-list fetch returned
\* absent, _get_random_post has returned False, _get_random_image and
\* update_background return False, set_background is not invoked and the
\* process has not crashed: the cycle goes on to the timeout sleep.
C1_FetchFailureAbortsCycle ==
    fetch_failed # "no" =>
        /\ post_info = False
        /\ pc \in {"image_loop", "ub_check", "timeout_sleep", "main", "exited"}
        /\ pc \in {"ub_check", "timeout_sleep", "main"} => result = False
        /\ pc \in {"timeout_sleep", "main"} => ub_ret = False
        /\ setter_calls = 0
        /\ status = -1

\* C1 witness: the post-list fetch failed and the cycle has reached the
\* timeout sleep without a call of set_background.
C1_Witness ==
    /\ fetch_failed = "thread"
    /\ pc = "timeout_sleep"
    /\ ub_ret = False
    /\ setter_calls = 0

\* C2 (as claimed): the loop of _get_random_image calls the selector again
\* whenever it returned no success, on null and on failure alike.
C2_RetriesOnNullAndFailure ==
    [][pc = "image_loop" /\ ~Truthy(post_info) /\ Steps
          => pc' = "post_bounds"]_vars

\* C2 (amended): the loop of _get_random_image calls the selector again only
\* when it returned null; when it returned failure the loop ends and
\* _get_random_image returns False; on success it goes on to the cache check.
C2_RetriesOnlyOnNull ==
    [][pc = "image_loop" /\ Steps =>
          /\ post_info = None => pc' = "post_bounds" /\ result' = result
          /\ post_info = False => pc' = "ub_check" /\ result' = False
          /\ post_info.kind = "dict" => pc' = "cache_check"]_vars

\* C2 witness: the selector is being called again after a null result, in a
\* cycle that has already fetched a thread.
C2_Witness ==
    /\ pc = "post_bounds"
    /\ post_info = None
    /\ "thread" \in reqs

\* C3 (as claimed): no outcome of any fetch, filter, folder creation, download
\* or command terminates the process; only an interrupt ends the main loop.
C3_OnlyInterruptEndsLoop == pc # "crashed"

\* C4 (as claimed): a path returned as a cache hit or handed to set_background
\* never refers to a file that a failed download left partly written.
C4_NoPartialFileUsed ==
    /\ (cache_hit /\ pc = "ub_check") => files[result.val] # "partial"
    /\ pc = "set_background" => files[result.val] # "partial"

\* C5: when a file exists at the destination path, _get_random_image returns
\* exactly that path, issues no image request and leaves the folder and the
\* files untouched.
C5_CacheHitShortCircuit ==
    /\ [](cache_hit => "image" \notin reqs /\ result = Str(path))
    /\ [][pc = "cache_check" /\ files[path] # "absent" /\ Steps =>
             /\ pc' = "ub_check"
             /\ result' = Str(path)
             /\ reqs' = reqs
             /\ folder' = folder
             /\ files' = files]_vars

\* C5 witness: a file completely written by an earlier cycle is returned as a
\* cache hit.
C5_Witness ==
    /\ cache_hit
    /\ pc = "ub_check"
    /\ result = Str(path)
    /\ files[path] = "complete"

\* C6: with a minimum above its maximum in either component, no request is
\* ever issued and every call of _get_random_post returns False.
C6_InvalidBoundsFailFast ==
    MinExceedsMax =>
        /\ reqs = {}
        /\ pc \in {"main", "post_bounds", "image_loop", "ub_check",
                   "timeout_sleep", "exited"}
        /\ pc \in {"image_loop", "ub_check", "timeout_sleep"} => post_info = False

\* C6 witness: only the width bound is violated and the selector has returned
\* False.
C6_Witness ==
    /\ min_w > max_w
    /\ min_h <= max_h
    /\ pc = "image_loop"
    /\ post_info = False

\* C7: a post returned by _get_random_post is a post of the fetched thread and
\* is eligible (image, no sticky, within the inclusive bounds, extension
\* allowed); an eligible post lying exactly on a bound is not filtered out, so
\* a thread that holds one yields a success.
C7_SelectedPostEligible ==
    /\ (pc = "image_loop" /\ post_info.kind = "dict") =>
          /\ json # Unset
          /\ post_info.post \in Range(json.posts)
          /\ Eligible(post_info.post)
    /\ (pc = "image_loop" /\ json # Unset) =>
          \A x \in Range(json.posts) :
              (Eligible(x) /\ (x.w \in {min_w, max_w} \/ x.h \in {min_h, max_h}))
                  => post_info.kind = "dict"

\* C7 witness: the returned post has the maximal width and the minimal height
\* of bounds that leave room between minimum and maximum.
C7_Witness ==
    /\ pc = "image_loop"
    /\ post_info.kind = "dict"
    /\ min_w < max_w /\ min_h < max_h
    /\ post_info.post.w = max_w
    /\ post_info.post.h = min_h
    /\ Len(json.posts) = MaxPosts

\* C8: when both fetches succeeded, _get_random_post returns None exactly when
\* no post of the thread is eligible, never False, and a success when some
\* post is eligible.
C8_NullIffNoEligiblePost ==
    (pc = "image_loop" /\ json # Unset) =>
        /\ post_info = None <=> (\A x \in Range(json.posts) : ~Eligible(x))
        /\ post_info # False
        /\ (\E x \in Range(json.posts) : Eligible(x)) => post_info.kind = "dict"

\* C8 witness: the only post of the thread has a size within the bounds and
\* the extension .webm, and the selector has returned None.
C8_Witness ==
    /\ pc = "image_loop"
    /\ post_info = None
    /\ json # Unset
    /\ Len(json.posts) = 1
    /\ "filename" \in DOMAIN json.posts[1]
    /\ "sticky" \notin DOMAIN json.posts[1]
    /\ json.posts[1].ext = ".webm"
    /\ min_w <= json.posts[1].w /\ json.posts[1].w <= max_w
    /\ min_h <= json.posts[1].h /\ json.posts[1].h <= max_h

\* C9 (as claimed): a cycle that invoked set_background returns True from
\* update_background, whatever the exit status; it returns False only when
\* set_background was not invoked.
C9_SetterCycleReturnsTrue ==
    pc = "timeout_sleep" =>
        /\ setter_calls > 0 => ub_ret = True
        /\ ub_ret = False => setter_calls = 0

\* C10: whatever exit status set_background returned, the cycle has not
\* failed and the process has not stopped: the next steps are the timeout
\* sleep and the call of the next cycle.
C10_ExitStatusIgnored ==
    /\ [](status # -1 =>
            /\ pc \in {"timeout_sleep", "main", "exited"}
            /\ ub_ret # False)
    /\ [][status # -1 /\ Steps =>
             \/ pc = "timeout_sleep" /\ pc' = "main"
             \/ pc = "main" /\ pc' = "post_bounds"]_vars

\* C10 witness: set_background returned a non-zero status and the timeout
\* sleep has ended: the next cycle is about to start.
C10_Witness ==
    /\ status > 0
    /\ pc = "main"
    /\ setter_calls = 1

\* the two hashes differ in one of their first 22 characters
DifferInPrefix(h1, h2) == \E i \in 1..22 : h1[i] # h2[i]

\* C11: the name derived for the selected post holds neither '+' nor '/', is
\* left unchanged by a second derivation, is the name of every post of the
\* thread with the same hash, and differs from the name of every post of the
\* thread whose hash differs within its first 22 characters.
C11_FilenameSafeAndDistinct ==
    [][(pc = "image_loop" /\ pc' = "cache_check") =>
          /\ \A i \in 1..Len(path'.filename) : path'.filename[i] \notin {"+", "/"}
          /\ _md5_to_filename(path'.filename) = path'.filename
          /\ \A x \in Range(json.posts) :
                /\ x.md5 = post_info.post.md5
                      => _md5_to_filename(x.md5) = path'.filename
                /\ DifferInPrefix(x.md5, post_info.post.md5)
                      => _md5_to_filename(x.md5) # path'.filename]_vars

\* C11 witness: the path has been derived from a hash that starts with '+'
\* and whose 22nd character is '/'.
C11_Witness ==
    /\ pc = "cache_check"
    /\ post_info.post.md5[1] = "+"
    /\ post_info.post.md5[22] = "/"
    /\ Len(path.filename) = 22
    /\ path.filename[1] = "-"
    /\ path.filename[22] = "_"

\* C12 (as claimed): an interrupt never cancels a download in progress, so the
\* process never ends by an interrupt that arrived while the image was being
\* streamed with the destination file partly written.
C12_NoInterruptDuringDownload ==
    pc = "exited" =>
        ~(interrupted_at = "save_stream" /\ files[path] = "partial")

\* the control positions of _save_image
DownloadInProgress(p) ==
    p \in {"save_request", "save_open", "save_stream", "save_eof"}

\* C12 (amended): an interrupt ends the process at whatever control position
\* it arrives, the download included: nothing below the top-level handler
\* catches it. A download it cancels never returns, so the setter is not
\* invoked, and the file is left as it was at that moment: with bytes missing
\* when the interrupt came before the last chunk.
C12_InterruptEndsProcessAnywhere ==
    /\ interrupted_at # "" => pc = "exited"
    /\ pc = "exited" => interrupted_at # ""
    /\ DownloadInProgress(interrupted_at) =>
          (result = Unset /\ setter_calls = 0)
    /\ interrupted_at = "save_stream" => files[path] # "complete"

\* C12 witness: the process has ended by an interrupt that arrived during the
\* streaming of the image; the destination file is partly written.
C12_Witness ==
    /\ pc = "exited"
    /\ interrupted_at = "save_stream"
    /\ files[path] = "partial"

\* C13: within a cycle every null return of _get_random_post comes after a
\* sleep of SLEEP_FAILURE seconds, so a thread-index request that is not the
\* first of its cycle is issued only after such a sleep made since the
\* previous thread-index request.
C13_NullReturnThrottled ==
    /\ (pc = "image_loop" /\ post_info = None) => slept >= SLEEP_FAILURE
    /\ (pc \in {"post_bounds", "thread_index"} /\ "index" \in reqs) =>
           slept >= SLEEP_FAILURE

\* C13 witness: the selector returned null and the second thread-index
\* request of the cycle is about to be issued.
C13_Witness ==
    /\ pc = "thread_index"
    /\ "index" \in reqs
    /\ post_info = None
    /\ slept = SLEEP_FAILURE

\* C14: the main loop alternates cycle and timeout sleep. A cycle starts only
\* from the top of the loop, which is reached only by the timeout sleep; when
\* update_background returns, whether it invoked the setter or returned
\* False, the timeout sleep is next; the setter is invoked at most once in a
\* cycle and never before a timeout sleep has followed its previous
\* invocation.
C14_CycleSleepAlternation ==
    /\ [](setter_calls <= 1)
    /\ [](pc = "set_background" => (timeout_slept /\ setter_calls = 0))
    /\ [][pc' = "main" => pc \in {"main", "timeout_sleep"}]_vars
    /\ [][(pc = "main" /\ Steps) => pc' = "post_bounds"]_vars
    /\ [][(pc' = "post_bounds" /\ pc \notin {"main", "post_bounds"}) =>
            (pc = "image_loop" /\ post_info = None)]_vars
    /\ [][(pc \in {"ub_check", "set_background"} /\ Steps) =>
            pc' \in {"set_background", "timeout_sleep"}]_vars
    /\ [][(pc = "timeout_sleep" /\ Steps) =>
            (pc' = "main" /\ timeout_slept')]_vars

\* C14 witness: a cycle that found its image in the cache, left there by an
\* earlier cycle, has invoked the setter once and the timeout sleep is next.
C14_Witness ==
    /\ pc = "timeout_sleep"
    /\ cache_hit
    /\ setter_calls = 1
    /\ ~timeout_slept

\* _get_random_image returned a path at which a file exists
ReturnedExistingFile == result.kind = "str" /\ files[result.val] # "absent"

\* C15: the setter is reached only from the recheck of update_background,
\* only when a file exists at the returned path at that moment, and it is
\* invoked with that path; when the path was returned but the file is absent
\* at the recheck, the cycle returns False without invoking the setter.
C15_SetterOnlyAfterRecheck ==
    /\ [][pc' = "set_background" =>
            (pc = "set_background" \/ (pc = "ub_check" /\ ReturnedExistingFile))]_vars
    /\ [][(pc = "ub_check" /\ Steps /\ ~ReturnedExistingFile) =>
            (pc' = "timeout_sleep" /\ ub_ret' = False /\ setter_calls' = 0)]_vars
    /\ [](setter_calls > 0 => (result.kind = "str" /\ setter_path = result.val))
    /\ []((pc = "timeout_sleep" /\ ub_ret = False) => setter_calls = 0)

\* C15 witness: the image was downloaded and its path returned, the file was
\* removed before the recheck, and the cycle has returned False with the
\* setter not invoked.
C15_Witness ==
    /\ pc = "timeout_sleep"
    /\ result.kind = "str"
    /\ "image" \in reqs
    /\ files[result.val] = "absent"
    /\ ub_ret = False
    /\ setter_calls = 0

\* C16: once creating the missing image folder has raised in a cycle, the
\* error is swallowed (the program goes on to the download), the file is not
\* opened for writing, _get_random_image returns False, update_background
\* returns False and the setter is not invoked in that cycle.
C16_FolderErrorFailsCycle ==
    mkdir_failed =>
        /\ ~folder
        /\ pc \in {"save_request", "save_open", "ub_check", "timeout_sleep",
                    "main", "exited"}
        /\ files[path] = "absent"
        /\ setter_calls = 0
        /\ pc \in {"ub_check", "timeout_sleep", "main"} => result = False
        /\ pc \in {"timeout_sleep", "main"} => ub_ret = False

\* C16 witness: creating the folder raised, the image was requested, opening
\* the file failed and the cycle has returned False.
C16_Witness ==
    /\ mkdir_failed
    /\ pc = "timeout_sleep"
    /\ "image" \in reqs
    /\ result = False
    /\ ub_ret = False
    /\ setter_calls = 0

\* A cycle has ended: the timeout sleep is next, or the interrupt ended the
\* process
CycleEnded == pc \in {"timeout_sleep", "exited"}

\* C17: every cycle that has started eventually ends and reaches the timeout
\* sleep (or is ended by the interrupt), when every call returns and the
\* selector does not return null forever.
C17_CycleReachesTimeoutSleep == (pc = "post_bounds") ~> CycleEnded

====
